---- MODULE Spec2Model ----
(***************************************************************************)
(* Model of src/tracker.py, the LTC cost basis tracker.                    *)
(*                                                                         *)
(* One run of main() is a sequence of steps: StartRun (load_data and the   *)
(* locals of main), FetchAddress (one iteration of the address loop),      *)
(* ParseMerge (parse_all_transactions and the merge loop), PriceDate (one  *)
(* iteration of the backfill loop), SummarizeSave (get_current_price,      *)
(* calculate_summary, save_data) and Report (the printed summary).  The    *)
(* two network services are the environment: what they answer is chosen    *)
(* with \E from the answers they can give.                                 *)
(*                                                                         *)
(* Units: amounts are integers in litoshis (1e-8 LTC, the unit the chain   *)
(* client reports), so amount_ltc and net_ltc are the code's values times  *)
(* 1e8; prices are integers.  None is Python's None.  The arithmetic of    *)
(* calculate_summary is exact (fractions), not floating point, and the     *)
(* rounding of its results for display is left out.  Spec runs main() on a  *)
(* valid config.json; SpecConfig is load_config and interactive_setup on   *)
(* any config.json, SpecCalc is calculate_summary on any ledger.  Not      *)
(* modelled: --reset, the console output other than the exception it can   *)
(* raise.                                                                  *)
(***************************************************************************)
EXTENDS Integers, Sequences, FiniteSets, TLC

----------------------------------------------------------------------------
(* Bounds of the model *)

\* records a page of the chain client holds; the code asks for 50, the
\* model for fewer so that a fetch of a few records takes several pages
PageLimit == 1
\* longest ledger handed to calculate_summary in SpecCalc
MaxEntries == 3
\* most addresses of a config.json in SpecConfig
MaxConfigLen == 2

(* Program constants *)

\* Python's None, for price_usd, last_block_height and current_price
None == -1
\* abs(net_ltc) < 0.00001, in litoshis: 0.00001 * 1e8
DustThreshold == 1000
\* config.get("max_transactions_per_address", 500)
DefaultMaxTxs == 500
\* config.get("target_profit_percent", 3.0)
TargetProfitPct == 3
\* block_height of a record that is not yet in a block
Unconfirmed == -1

----------------------------------------------------------------------------
(* The configuration and the chain the environment serves *)

\* config["addresses"]: the watched addresses, in file order
Addresses == <<"A", "B">>

\* The transactions that exist on the chain, newest first, as the chain
\* client reports them once they are in a block.  X is not watched.  The
\* records of one block carry the block's time as "confirmed", <<date, time>>.
\*   block 1, <<1, 1>>:  t1  X -> A      2000               a receive
\*   block 2, <<2, 1>>:  t3  A -> B      3000 in, 2000 out  internal, fee 1000
\*                       t2  A -> B      2000 in, 1900 out  internal, fee 100
\*   block 3, <<2, 2>>:  t4  B -> X      1500               a spend
\*                       t5  X -> {A,B}  999                one output that
\*                                                          lists both
ChainTxs ==
  << [hash |-> "t5", confirmed |-> <<2, 2>>, block_height |-> 3,
      inputs  |-> << [addresses |-> <<"X">>, output_value |-> 1200] >>,
      outputs |-> << [addresses |-> <<"A", "B">>, value |-> 999] >>],
     [hash |-> "t4", confirmed |-> <<2, 2>>, block_height |-> 3,
      inputs  |-> << [addresses |-> <<"B">>, output_value |-> 1500] >>,
      outputs |-> << [addresses |-> <<"X">>, value |-> 1400] >>],
     [hash |-> "t2", confirmed |-> <<2, 1>>, block_height |-> 2,
      inputs  |-> << [addresses |-> <<"A">>, output_value |-> 2000] >>,
      outputs |-> << [addresses |-> <<"B">>, value |-> 1900] >>],
     [hash |-> "t3", confirmed |-> <<2, 1>>, block_height |-> 2,
      inputs  |-> << [addresses |-> <<"A">>, output_value |-> 3000] >>,
      outputs |-> << [addresses |-> <<"B">>, value |-> 2000] >>],
     [hash |-> "t1", confirmed |-> <<1, 1>>, block_height |-> 1,
      inputs  |-> << [addresses |-> <<"X">>, output_value |-> 2100] >>,
      outputs |-> << [addresses |-> <<"A">>, value |-> 2000] >>] >>

\* the highest block of ChainTxs (its first record is the newest)
MaxHeight == ChainTxs[1].block_height

\* the prices the historical oracle can answer for a date; 0 is an answer
\* the code takes for no price
Prices == {0, 50, 100}

\* the prices the oracle can answer for now
CurrentPrices == {80}

----------------------------------------------------------------------------
VARIABLES
  data,            \* the persisted document data.json
  pc,              \* position of main(): idle, fetch, parse, price, save,
                   \* report, crashed (calc, summed in SpecCalc; start,
                   \* setup, loaded, exited in SpecConfig)
  tip,             \* height of the chain's newest block
  addr_i,          \* index of the address the fetch loop is at
  all_raw_txs,     \* main's all_raw_txs
  highest_block,   \* main's highest_block
  api_balance_total, \* main's api_balance_total
  existing_txs,    \* main's existing_txs
  seen_txids,      \* main's seen_txids
  is_first_run,    \* main's is_first_run
  dates_todo,      \* the dates of sorted(dates_needed) still to be priced
  price_cache,     \* the module's _price_cache
  queried,         \* the dates the historical oracle was asked for in this run
  oracle_log,      \* the dates of its requests in this run, in order
  fetch_failed,    \* the addresses whose fetch raised in this run
  missed,          \* ledgerable transactions a failed fetch did not deliver
  saves,           \* number of save_data calls in this run
  config,          \* the file config.json
  addresses,       \* main's addresses; interactive_setup's while it runs
  net_requests     \* has this run sent a request to a network service

vars == << data, pc, tip, addr_i, all_raw_txs, highest_block,
           api_balance_total, existing_txs, seen_txids, is_first_run,
           dates_todo, price_cache, queried, oracle_log, fetch_failed,
           missed, saves, config, addresses, net_requests >>

\* the configuration file, main's copy of its addresses and the mark of
\* network activity
cfgvars == << config, addresses, net_requests >>

----------------------------------------------------------------------------
(* Helpers *)

Max(a, b) == IF a >= b THEN a ELSE b

Abs(n) == IF n < 0 THEN 0 - n ELSE n

Range(s) == { s[i] : i \in 1..Len(s) }

\* Python truthiness of a number or None: None and 0 are false
Truthy(x) == x # None /\ x # 0

\* order of two ISO timestamps <<date, time>>
TsLess(a, b) == a[1] < b[1] \/ (a[1] = b[1] /\ a[2] < b[2])

\* the first n elements of s
Take(s, n) == SubSeq(s, 1, IF n < Len(s) THEN n ELSE Len(s))

\* s without its first n elements
Drop(s, n) == SubSeq(s, (IF n < Len(s) THEN n ELSE Len(s)) + 1, Len(s))

----------------------------------------------------------------------------
(* The chain data client (Blockcypher), seen from fetch_address_txs *)

\* does the transaction name the address in an input or an output
Touches(tx, addr) ==
  \/ \E i \in 1..Len(tx.inputs)  : addr \in Range(tx.inputs[i].addresses)
  \/ \E i \in 1..Len(tx.outputs) : addr \in Range(tx.outputs[i].addresses)

\* The record the client serves for a transaction when the chain's newest
\* block is t: in a block, or broadcast and waiting for the next block.
Served(tx, t) ==
  IF tx.block_height <= t THEN tx
  ELSE [tx EXCEPT !.confirmed = <<>>, !.block_height = Unconfirmed]

\* The full answer of /addrs/{address}/full, newest first.  "after" keeps
\* the records above that height; whether the block at that height itself
\* is served again is the client's choice (inclusive).
AddressHistory(addr, t, after, inclusive) ==
  LET known == SelectSeq(ChainTxs,
                 LAMBDA tx : tx.block_height <= t + 1 /\ Touches(tx, addr))
      recs  == [i \in 1..Len(known) |-> Served(known[i], t)]
  IN  SelectSeq(recs, LAMBDA r :
        \/ after = None
        \/ r.block_height > after
        \/ (inclusive /\ r.block_height = after))

----------------------------------------------------------------------------
(* fetch_address_txs and fetch_address_balance *)

\* The while loop of fetch_address_txs: txs are the records gathered so
\* far, rest is what the client has still to serve, page is the number of
\* the request about to be made and fail_at the request that raises (0:
\* none does).  The result is the list returned and whether a request
\* raised.
RECURSIVE FetchLoop(_, _, _, _, _)
FetchLoop(txs, rest, max_txs, page, fail_at) ==
  IF page = fail_at
  THEN [txs |-> txs, failed |-> TRUE]
  ELSE LET got == txs \o Take(rest, PageLimit)
           hasMore == Len(rest) > PageLimit
       IN  IF max_txs > 0 /\ Len(got) >= max_txs
           THEN [txs |-> Take(got, max_txs), failed |-> FALSE]
           ELSE IF hasMore
                THEN FetchLoop(got, Drop(rest, PageLimit), max_txs,
                               page + 1, fail_at)
                ELSE [txs |-> got, failed |-> FALSE]

\* 'if after_block: params["after"] = after_block': the "after" parameter
\* of the requests, None when the parameter is not sent
AfterParam(after_block) ==
  IF Truthy(after_block) THEN after_block ELSE None

\* fetch_address_txs(address, max_txs, after_block) when the chain's newest
\* block is t
FetchAddressTxs(addr, max_txs, after_block, t, inclusive, fail_at) ==
  FetchLoop(<<>>,
            AddressHistory(addr, t, AfterParam(after_block), inclusive),
            max_txs, 1, fail_at)

\* the sum of the values of the items that list the address
RECURSIVE SumValues(_, _, _)
SumValues(items, addr, field) ==
  IF items = <<>> THEN 0
  ELSE (IF addr \in Range(Head(items).addresses)
        THEN (IF field = "value" THEN Head(items).value
              ELSE Head(items).output_value)
        ELSE 0) + SumValues(Tail(items), addr, field)

\* the confirmed balance the chain client reports for an address when the
\* newest block is t; an address that spent more than ChainTxs shows it
\* received was funded before the history modelled here, and reports 0
RECURSIVE ChainNet(_, _, _)
ChainNet(txs, addr, t) ==
  IF txs = <<>> THEN 0
  ELSE (IF Head(txs).block_height <= t
        THEN SumValues(Head(txs).outputs, addr, "value")
             - SumValues(Head(txs).inputs, addr, "output_value")
        ELSE 0) + ChainNet(Tail(txs), addr, t)

\* fetch_address_balance(address): None when the request raises
FetchAddressBalance(addr, t, ok) ==
  IF ok THEN Max(0, ChainNet(ChainTxs, addr, t)) ELSE None

\* TrackHighest taking the height of the last record instead of the highest
TrackLast(hb, raw_txs) ==
  IF raw_txs = <<>> THEN hb ELSE raw_txs[Len(raw_txs)].block_height

\* the "Track highest block height we've seen" loop of main
RECURSIVE TrackHighest(_, _)
TrackHighest(hb, raw_txs) ==
  IF raw_txs = <<>> THEN hb
  ELSE LET bh == Head(raw_txs).block_height
       IN  TrackHighest(IF bh # 0 /\ bh > hb THEN bh ELSE hb, Tail(raw_txs))

----------------------------------------------------------------------------
(* The state after construction: no data.json, main not started *)

EmptyData ==
  [transactions |-> <<>>, seen_txids |-> {}, summary |-> <<>>,
   last_block_height |-> None]

Init ==
  /\ data = EmptyData
  /\ pc = "idle"
  /\ tip = 0
  /\ addr_i = 1
  /\ all_raw_txs = <<>>
  /\ highest_block = 0
  /\ api_balance_total = 0
  /\ existing_txs = <<>>
  /\ seen_txids = {}
  /\ is_first_run = TRUE
  /\ dates_todo = <<>>
  /\ price_cache = <<>>
  /\ queried = {}
  /\ oracle_log = <<>>
  /\ fetch_failed = {}
  /\ missed = {}
  /\ saves = 0
  /\ config = [exists |-> TRUE, addresses |-> Addresses]
  /\ addresses = <<>>
  /\ net_requests = FALSE

\* main() up to the address loop: load_config, load_data, the locals.
\* A run is a new process: _price_cache starts empty.  The chain may have
\* grown since the last run.
StartRun ==
  /\ pc \in {"idle", "crashed"}
  /\ \E t \in tip..MaxHeight : tip' = t
  /\ seen_txids' = data.seen_txids
  /\ existing_txs' = data.transactions
  /\ is_first_run' = (Len(data.transactions) = 0)
  /\ all_raw_txs' = <<>>
  /\ api_balance_total' = 0
  /\ highest_block' = (IF Truthy(data.last_block_height)
                         THEN data.last_block_height ELSE 0)
  /\ addr_i' = 1
  /\ dates_todo' = <<>>
  /\ price_cache' = <<>>
  /\ queried' = {}
  /\ oracle_log' = <<>>
  /\ fetch_failed' = {}
  /\ saves' = 0
  /\ pc' = "fetch"
  /\ addresses' = config.addresses
  /\ net_requests' = FALSE
  /\ UNCHANGED << data, missed, config >>

\* "after_block = None if is_first_run else last_block": the lower bound
\* main passes to fetch_address_txs, the same for every address of a run
AfterBlock == IF is_first_run THEN None ELSE data.last_block_height

\* One iteration of "for addr in addresses": the balance request, the
\* transaction fetch, the highest-block loop, all_raw_txs.extend.
FetchAddress ==
  /\ pc = "fetch"
  /\ addr_i <= Len(Addresses)
  /\ \E bal_ok \in BOOLEAN, full_sync \in BOOLEAN, inclusive \in BOOLEAN,
        fail_at \in 0..Len(ChainTxs) :
       LET addr    == Addresses[addr_i]
           balance == FetchAddressBalance(addr, tip, bal_ok)
           max_txs == IF full_sync THEN 0 ELSE DefaultMaxTxs
           after_block == AfterBlock
           res     == FetchAddressTxs(addr, max_txs, after_block, tip,
                                      inclusive, fail_at)
       IN  /\ api_balance_total' = (IF balance # None
                                     THEN api_balance_total + balance
                                     ELSE api_balance_total)
           /\ highest_block' = TrackHighest(highest_block, res.txs)
           /\ all_raw_txs' = all_raw_txs \o res.txs
           /\ fetch_failed' = (IF res.failed THEN fetch_failed \cup {addr}
                                ELSE fetch_failed)
  /\ addr_i' = addr_i + 1
  /\ pc' = (IF addr_i = Len(Addresses) THEN "parse" ELSE "fetch")
  /\ net_requests' = TRUE
  /\ UNCHANGED << data, tip, existing_txs, seen_txids, is_first_run,
                  dates_todo, price_cache, queried, oracle_log, missed, saves,
                  config, addresses >>

----------------------------------------------------------------------------
(* parse_all_transactions *)

\* the deduplication loop: the first record of each non-empty hash
UniqueTxs(raw) ==
  LET keep(i) == /\ raw[i].hash # ""
                 /\ \A j \in 1..(i - 1) : raw[j].hash # raw[i].hash
      RECURSIVE From(_)
      From(i) == IF i > Len(raw) THEN <<>>
                 ELSE (IF keep(i) THEN <<raw[i]>> ELSE <<>>) \o From(i + 1)
  IN  From(1)

\* "for out in outputs: for addr in out.addresses: if addr in tracked_set":
\* the value is added once for every tracked address the item lists
RECURSIVE TrackedCount(_, _)
TrackedCount(addrs, tracked_set) ==
  IF addrs = <<>> THEN 0
  ELSE (IF Head(addrs) \in tracked_set THEN 1 ELSE 0)
       + TrackedCount(Tail(addrs), tracked_set)

RECURSIVE TotalReceived(_, _)
TotalReceived(outputs, tracked_set) ==
  IF outputs = <<>> THEN 0
  ELSE TrackedCount(Head(outputs).addresses, tracked_set) * Head(outputs).value
       + TotalReceived(Tail(outputs), tracked_set)

\* TotalSent reading the inputs' "value", which the chain client does not
\* send: inp.get("value", 0) is 0 for every input
TotalSentByValue(inputs, tracked_set) == 0

RECURSIVE TotalSent(_, _)
TotalSent(inputs, tracked_set) ==
  IF inputs = <<>> THEN 0
  ELSE TrackedCount(Head(inputs).addresses, tracked_set)
         * Head(inputs).output_value
       + TotalSent(Tail(inputs), tracked_set)

InvolvedAddresses(tx, tracked_set) ==
  { a \in tracked_set : Touches(tx, a) }

NetLitoshis(tx, tracked_set) ==
  TotalReceived(tx.outputs, tracked_set) - TotalSent(tx.inputs, tracked_set)

\* IsDust with <= for <: a net effect equal to the threshold is dropped
IsDustInclusive(net) == Abs(net) <= DustThreshold

\* "if abs(net_ltc) < 0.00001: continue"
IsDust(net) == Abs(net) < DustThreshold

\* the entry parse_all_transactions appends for a confirmed, non-dust record
MakeEntry(tx, tracked_set) ==
  LET net == NetLitoshis(tx, tracked_set)
  IN  [txid |-> tx.hash,
       date |-> tx.confirmed[1],
       timestamp |-> tx.confirmed,
       addresses |-> InvolvedAddresses(tx, tracked_set),
       type |-> IF net > 0 THEN "receive" ELSE "spend",
       amount_ltc |-> Abs(net),
       net_ltc |-> net,
       price_usd |-> None]

\* ParseOne without "if not confirmed: continue": a record without a
\* confirmation time gets an entry of the empty date and time
ParseOneUnconfirmed(tx, tracked_set) ==
  IF IsDust(NetLitoshis(tx, tracked_set)) THEN <<>>
  ELSE IF tx.confirmed = <<>>
       THEN << MakeEntry([tx EXCEPT !.confirmed = <<0, 0>>], tracked_set) >>
       ELSE << MakeEntry(tx, tracked_set) >>

\* the body of "for txid, tx in unique_txs.items()": the entries one record
\* contributes, none or one
ParseOne(tx, tracked_set) ==
  IF tx.confirmed = <<>> THEN <<>>
  ELSE IF IsDust(NetLitoshis(tx, tracked_set)) THEN <<>>
  ELSE << MakeEntry(tx, tracked_set) >>

RECURSIVE ParseEach(_, _)
ParseEach(txs, tracked_set) ==
  IF txs = <<>> THEN <<>>
  ELSE ParseOne(Head(txs), tracked_set) \o ParseEach(Tail(txs), tracked_set)

ParseAllTransactions(all_raw, tracked_addresses) ==
  ParseEach(UniqueTxs(all_raw), Range(tracked_addresses))

----------------------------------------------------------------------------
(* The merge loop and the sort of main *)

\* MergeOne without its test of seen_txids: every parsed entry is appended
MergeOneNoCheck(st, tx) ==
  [txs |-> Append(st.txs, tx), seen |-> st.seen \cup {tx.txid}]

\* MergeOne without seen_txids.add: the txid is not remembered
MergeOneNoAdd(st, tx) ==
  IF tx.txid \notin st.seen
  THEN [txs |-> Append(st.txs, tx), seen |-> st.seen]
  ELSE st

\* MergeOne that puts the entry of a seen txid in the place of the one the
\* ledger holds
MergeOneReplace(st, tx) ==
  IF tx.txid \notin st.seen
  THEN [txs |-> Append(st.txs, tx), seen |-> st.seen \cup {tx.txid}]
  ELSE [txs |-> [i \in 1..Len(st.txs) |->
                   IF st.txs[i].txid = tx.txid THEN tx ELSE st.txs[i]],
        seen |-> st.seen]

\* "if tx['txid'] not in seen_txids": one iteration of the merge loop, on
\* the pair [txs, seen] of existing_txs and seen_txids
MergeOne(st, tx) ==
  IF tx.txid \notin st.seen
  THEN [txs |-> Append(st.txs, tx), seen |-> st.seen \cup {tx.txid}]
  ELSE st

RECURSIVE MergeLoop(_, _)
MergeLoop(st, parsed) ==
  IF parsed = <<>> THEN st
  ELSE MergeLoop(MergeOne(st, Head(parsed)), Tail(parsed))

\* sorted(existing_txs, key=lambda t: t["timestamp"]): a stable sort
RECURSIVE InsertByTimestamp(_, _)
InsertByTimestamp(sorted, tx) ==
  IF sorted = <<>> THEN <<tx>>
  ELSE IF TsLess(tx.timestamp, Head(sorted).timestamp)
       THEN <<tx>> \o sorted
       ELSE <<Head(sorted)>> \o InsertByTimestamp(Tail(sorted), tx)

RECURSIVE SortedByTimestamp(_)
SortedByTimestamp(txs) ==
  IF txs = <<>> THEN <<>>
  ELSE InsertByTimestamp(SortedByTimestamp(SubSeq(txs, 1, Len(txs) - 1)),
                         txs[Len(txs)])

\* DatesNeeded without its test of price_usd: the dates of all the entries
DatesOfAll(txs) == { txs[i].date : i \in 1..Len(txs) }

\* dates_needed: the dates of the entries whose price_usd is None
DatesNeeded(txs) ==
  { txs[i].date : i \in { j \in 1..Len(txs) : txs[j].price_usd = None } }

\* sorted(dates_needed)
RECURSIVE SortedDates(_)
SortedDates(dates) ==
  IF dates = {} THEN <<>>
  ELSE LET d == CHOOSE x \in dates : \A y \in dates : x <= y
       IN  <<d>> \o SortedDates(dates \ {d})

\* AssignPrice without its test of price_usd: every entry of the date is
\* given the price
AssignPriceOverwrite(tx, date_str, price) ==
  IF tx.date = date_str THEN [tx EXCEPT !.price_usd = price] ELSE tx

\* "for tx in existing_txs: if tx['date'] == date_str and
\* tx.get('price_usd') is None: tx['price_usd'] = price"
AssignPrice(tx, date_str, price) ==
  IF tx.date = date_str /\ tx.price_usd = None
  THEN [tx EXCEPT !.price_usd = price]
  ELSE tx

AssignPrices(txs, date_str, price) ==
  [i \in 1..Len(txs) |-> AssignPrice(txs[i], date_str, price)]

----------------------------------------------------------------------------
(* Exact fractions <<n, d>>, d > 0, in lowest terms: the values the float  *)
(* arithmetic of calculate_summary stands for.  NoneR is None where a      *)
(* fraction is expected.                                                   *)

RECURSIVE Gcd(_, _)
Gcd(a, b) == IF b = 0 THEN a ELSE Gcd(b, a % b)

Rat(n, d) ==
  LET g == Gcd(Abs(n), Abs(d))
      sgn == IF d < 0 THEN 0 - 1 ELSE 1
  IN  << sgn * (n \div g), sgn * (d \div g) >>

RInt(n) == << n, 1 >>

NoneR == << >>

RMul(a, b) ==
  LET x == Rat(a[1], b[2])
      y == Rat(b[1], a[2])
  IN  Rat(x[1] * y[1], x[2] * y[2])

RDiv(a, b) == RMul(a, Rat(b[2], b[1]))

RSub(a, b) == Rat(a[1] * b[2] - b[1] * a[2], a[2] * b[2])

RIsZero(a) == a[1] = 0

----------------------------------------------------------------------------
(* calculate_summary.  amount_ltc is held in litoshis, so every amount and *)
(* every currency value of the summary is the code's value times 1e8; the  *)
(* record holds the values before round(), which the code applies only     *)
(* when it builds the returned dict.                                       *)

\* PricedOfType without its test of price_usd
AllOfType(transactions, kind) ==
  SelectSeq(transactions, LAMBDA t : t.type = kind)

\* PricedOfType without its test of the type: the priced entries of any kind
PricedOfAnyType(transactions, kind) ==
  SelectSeq(transactions, LAMBDA t : Truthy(t.price_usd))

\* "t['type'] == kind and t.get('price_usd')": the priced entries of a kind
PricedOfType(transactions, kind) ==
  SelectSeq(transactions,
            LAMBDA t : t.type = kind /\ Truthy(t.price_usd))

RECURSIVE SumAmount(_)
SumAmount(txs) ==
  IF txs = <<>> THEN 0 ELSE Head(txs).amount_ltc + SumAmount(Tail(txs))

RECURSIVE SumCost(_)
SumCost(txs) ==
  IF txs = <<>> THEN 0
  ELSE Head(txs).amount_ltc * Head(txs).price_usd + SumCost(Tail(txs))

\* "avg_cost_basis = total_cost / total_received_ltc if total_received_ltc
\* > 0 else 0"
AvgCostBasis(total_cost, total_received_ltc) ==
  IF total_received_ltc > 0 THEN Rat(total_cost, total_received_ltc)
  ELSE RInt(0)

\* "remaining_cost = avg_cost_basis * balance_ltc if balance_ltc > 0 else 0"
RemainingCost(avg_cost_basis, balance_ltc) ==
  IF balance_ltc > 0 THEN RMul(avg_cost_basis, RInt(balance_ltc))
  ELSE RInt(0)

\* "current_value = balance_ltc * current_price if current_price else None"
CurrentValue(balance_ltc, current_price) ==
  IF Truthy(current_price) THEN RInt(balance_ltc * current_price) ELSE NoneR

\* is a value of calculate_summary true in Python: not None and not 0
TruthyR(x) == x # NoneR /\ ~RIsZero(x)

CalculateSummary(transactions, current_price, target_profit_pct) ==
  LET receives == PricedOfType(transactions, "receive")
      spends   == PricedOfType(transactions, "spend")
      total_received_ltc == SumAmount(receives)
      total_cost         == SumCost(receives)
      total_spent_ltc    == SumAmount(spends)
      balance_ltc        == total_received_ltc - total_spent_ltc
      avg_cost_basis     == AvgCostBasis(total_cost, total_received_ltc)
      remaining_cost     == RemainingCost(avg_cost_basis, balance_ltc)
      target_sell_price  == RMul(avg_cost_basis,
                                 Rat(100 + target_profit_pct, 100))
      current_value      == CurrentValue(balance_ltc, current_price)
      unrealized_pl      == IF TruthyR(current_value)
                            THEN RSub(current_value, remaining_cost)
                            ELSE NoneR
      unrealized_pl_pct  == IF TruthyR(remaining_cost)
                               /\ unrealized_pl # NoneR
                            THEN RMul(RDiv(unrealized_pl, remaining_cost),
                                      RInt(100))
                            ELSE NoneR
  IN  [balance_ltc |-> balance_ltc,
       total_received_ltc |-> total_received_ltc,
       total_spent_ltc |-> total_spent_ltc,
       total_cost_usd |-> total_cost,
       remaining_cost_usd |-> remaining_cost,
       avg_cost_basis_usd |-> avg_cost_basis,
       target_profit_pct |-> target_profit_pct,
       target_sell_price_usd |-> target_sell_price,
       current_price_usd |-> current_price,
       current_value_usd |-> IF TruthyR(current_value) THEN current_value
                             ELSE NoneR,
       unrealized_pl_usd |-> unrealized_pl,
       unrealized_pl_pct |-> unrealized_pl_pct,
       total_transactions |-> Len(receives) + Len(spends),
       total_receives |-> Len(receives),
       total_spends |-> Len(spends)]

----------------------------------------------------------------------------
(* The rest of main() *)

TxIds(txs) == { txs[i].txid : i \in 1..Len(txs) }

\* the transactions of an address that are in a block at height t or below
\* and that the normalizer turns into an entry
Ledgerable(addr, t) ==
  { tx \in Range(ChainTxs) :
      /\ tx.block_height <= t
      /\ Touches(tx, addr)
      /\ ParseOne(tx, Range(Addresses)) # <<>> }

\* What this run's failed fetches cost: the pairs <<address, txid>> of a
\* ledgerable transaction of an address whose fetch raised, while another
\* address's fetch went through, that is not in the ledger after the merge.
MissedNow(merged) ==
  IF fetch_failed = Range(Addresses) THEN {}
  ELSE { m \in fetch_failed \X { tx.hash : tx \in Range(ChainTxs) } :
           /\ m[2] \notin TxIds(merged)
           /\ \E tx \in Ledgerable(m[1], tip) : tx.hash = m[2] }

\* lines 509-515 of main: the parse and the merge loop, from existing_txs
\* and seen_txids as loaded and the raw records of the run
Merged(existing, seen, raw) ==
  MergeLoop([txs |-> existing, seen |-> seen],
            ParseAllTransactions(raw, Addresses))

\* parse_all_transactions, the merge loop and dates_needed
ParseMerge ==
  /\ pc = "parse"
  /\ LET st == Merged(existing_txs, seen_txids, all_raw_txs)
         todo == SortedDates(DatesNeeded(st.txs))
     IN  /\ existing_txs' = st.txs
         /\ seen_txids' = st.seen
         /\ dates_todo' = todo
         /\ pc' = (IF todo = <<>> THEN "save" ELSE "price")
         /\ missed' = missed \cup MissedNow(st.txs)
  /\ UNCHANGED << data, tip, addr_i, all_raw_txs, highest_block,
                  is_first_run, price_cache, queried, oracle_log,
                  fetch_failed, saves, api_balance_total, cfgvars >>

\* get_historical_price(date_str): answer is what the oracle would say
\* (None: the request raises).  The result is the price returned, the cache
\* afterwards and whether the oracle was asked.
GetHistoricalPrice(cache, date_str, answer) ==
  IF date_str \in DOMAIN cache
  THEN [price |-> cache[date_str], cache |-> cache, asked |-> FALSE]
  ELSE IF answer = None
       THEN [price |-> None, cache |-> cache, asked |-> TRUE]
       ELSE [price |-> answer,
             cache |-> [d \in DOMAIN cache \cup {date_str} |->
                          IF d = date_str THEN answer ELSE cache[d]],
             asked |-> TRUE]

\* "if price:" of the backfill loop, then the assignment loop
Backfill(txs, date_str, price) ==
  IF Truthy(price) THEN AssignPrices(txs, date_str, price) ELSE txs

\* one iteration of "for date_str in sorted(dates_needed)"
PriceDate ==
  /\ pc = "price"
  /\ dates_todo # <<>>
  /\ \E answer \in Prices \cup {None} :
       LET date_str == Head(dates_todo)
           got == GetHistoricalPrice(price_cache, date_str, answer)
       IN  /\ price_cache' = got.cache
           /\ queried' = (IF got.asked THEN queried \cup {date_str}
                           ELSE queried)
           /\ oracle_log' = (IF got.asked THEN Append(oracle_log, date_str)
                              ELSE oracle_log)
           /\ existing_txs' = Backfill(existing_txs, date_str, got.price)
  /\ dates_todo' = Tail(dates_todo)
  /\ pc' = (IF Tail(dates_todo) = <<>> THEN "save" ELSE "price")
  /\ UNCHANGED << data, tip, addr_i, all_raw_txs, highest_block,
                  seen_txids, is_first_run, fetch_failed, missed, saves,
                  api_balance_total, cfgvars >>

\* SavedData without 'data["seen_txids"] = list(seen_txids)': the document
\* keeps the seen_txids it was loaded with
SavedDataSeenAsLoaded(txs, seen, summary, hb) ==
  [transactions |-> SortedByTimestamp(txs),
   seen_txids |-> data.seen_txids,
   summary |-> summary,
   last_block_height |-> hb]

\* the document main() writes
SavedData(txs, seen, summary, hb) ==
  [transactions |-> SortedByTimestamp(txs),
   seen_txids |-> seen,
   summary |-> summary,
   last_block_height |-> hb]

\* get_current_price, calculate_summary, the assignments to data, save_data
SummarizeSave ==
  /\ pc = "save"
  /\ \E current_price \in CurrentPrices \cup {None} :
       data' = SavedData(existing_txs, seen_txids,
                         CalculateSummary(existing_txs, current_price,
                                          TargetProfitPct),
                         highest_block)
  /\ saves' = saves + 1
  /\ missed' = { m \in missed : m[1] \in fetch_failed }
  /\ pc' = "report"
  /\ UNCHANGED << tip, addr_i, all_raw_txs, highest_block,
                  api_balance_total, existing_txs,
                  seen_txids, is_first_run, dates_todo, price_cache, queried,
                  oracle_log, fetch_failed, cfgvars >>

\* The printed summary.  Line 580 formats summary['unrealized_pl_pct'] with
\* ":.2f" whenever current_price is true and unrealized_pl_usd is not None;
\* formatting None that way raises TypeError.
ReportRaises(summary) ==
  /\ Truthy(summary.current_price_usd)
  /\ summary.unrealized_pl_usd # NoneR
  /\ summary.unrealized_pl_pct = NoneR

\* the process ends, normally or by the uncaught exception: its locals go
Report ==
  /\ pc = "report"
  /\ pc' = (IF ReportRaises(data.summary) THEN "crashed" ELSE "idle")
  /\ addr_i' = 1
  /\ all_raw_txs' = <<>>
  /\ highest_block' = 0
  /\ api_balance_total' = 0
  /\ existing_txs' = <<>>
  /\ seen_txids' = {}
  /\ is_first_run' = TRUE
  /\ dates_todo' = <<>>
  /\ price_cache' = <<>>
  /\ queried' = {}
  /\ oracle_log' = <<>>
  /\ fetch_failed' = {}
  /\ saves' = 0
  /\ addresses' = <<>>
  /\ net_requests' = FALSE
  /\ UNCHANGED << data, tip, missed, config >>

Next ==
  \/ StartRun
  \/ FetchAddress
  \/ ParseMerge
  \/ PriceDate
  \/ SummarizeSave
  \/ Report

Spec == Init /\ [][Next]_vars

----------------------------------------------------------------------------
(* Properties *)

\* the totals of a summary
Totals(summary) ==
  << summary.balance_ltc, summary.total_received_ltc,
     summary.total_spent_ltc, summary.total_cost_usd,
     summary.total_transactions >>

\* C1. Merge idempotence: when a run has persisted its state, a second pass
\* of the pipeline over the same raw records, from the persisted ledger and
\* seen_txids, appends nothing: the ledger, its order as saved, seen_txids
\* and the totals of the summary are what the first pass left.
C1_MergeIdempotent ==
  pc = "report" =>
    LET again == Merged(data.transactions, data.seen_txids, all_raw_txs)
    IN  /\ again.txs = data.transactions
        /\ again.seen = data.seen_txids
        /\ SortedByTimestamp(again.txs) = data.transactions
        /\ Totals(CalculateSummary(again.txs, data.summary.current_price_usd,
                                   TargetProfitPct))
             = Totals(data.summary)

\* a run that merged entries of its own raw records into a ledger that
\* already held an entry of an earlier run
C1_Witness ==
  /\ pc = "report"
  /\ LET parsed == ParseAllTransactions(all_raw_txs, Addresses)
     IN  /\ Len(parsed) >= 2
         /\ TxIds(data.transactions) \ TxIds(parsed) # {}

NoDuplicateTxid(txs) ==
  \A i, j \in 1..Len(txs) : txs[i].txid = txs[j].txid => i = j

\* C2. Txid uniqueness: no two entries of the ledger, persisted or in
\* memory, share a txid.
C2_TxidUnique ==
  NoDuplicateTxid(data.transactions) /\ NoDuplicateTxid(existing_txs)

\* the fetches of two addresses returned the same txid in one run, the
\* ledger loaded for the run already held it, and the merge is done
C2_Witness ==
  /\ pc \in {"price", "save"}
  /\ \E i, j \in 1..Len(all_raw_txs) :
       /\ i < j
       /\ all_raw_txs[i].hash = all_raw_txs[j].hash
       /\ all_raw_txs[i].hash \in TxIds(data.transactions)
       /\ all_raw_txs[i].hash \in TxIds(existing_txs)

\* the prices of the priced entries of txs are kept in txs2
PricesKept(txs, txs2) ==
  \A i \in 1..Len(txs), j \in 1..Len(txs2) :
    (txs[i].txid = txs2[j].txid /\ txs[i].price_usd # None)
      => txs2[j].price_usd = txs[i].price_usd

\* C3. Price idempotence: no step changes the unit price of an entry that
\* has one, in memory (the backfill steps of a run) or in the persisted
\* ledger (from the state one run saved to the state the next run saves).
C3_PriceIdempotent ==
  [][ /\ PricesKept(existing_txs, existing_txs')
      /\ PricesKept(data.transactions, data.transactions')
      /\ PricesKept(data.transactions, existing_txs') ]_vars

\* the oracle was asked again for a date and answered another price than
\* the one an entry of that date holds: both prices are in the ledger
C3_Witness ==
  /\ pc = "save"
  /\ \E i, j \in 1..Len(existing_txs) :
       /\ existing_txs[i].date = existing_txs[j].date
       /\ existing_txs[i].price_usd # None
       /\ existing_txs[j].price_usd # None
       /\ existing_txs[i].price_usd # existing_txs[j].price_usd
       /\ existing_txs[j].date \in queried

\* last_block_height, None read as 0 the way main reads it
BlockOr0(d) ==
  IF d.last_block_height = None THEN 0 ELSE d.last_block_height

SetMax(S) == CHOOSE x \in S : \A y \in S : y <= x

\* C4. Cursor monotonicity: no step lowers the persisted last_block_height,
\* and a run saves the maximum of the value it loaded and the block heights
\* of all the raw records it fetched.
C4_CursorMonotone ==
  [][ /\ BlockOr0(data') >= BlockOr0(data)
      /\ (pc = "save" /\ pc' = "report") =>
            data'.last_block_height =
              SetMax({BlockOr0(data)} \cup
                     { all_raw_txs[i].block_height :
                         i \in 1..Len(all_raw_txs) }) ]_vars

\* a run that loaded a cursor and fetched records, one of them of a lower
\* block and none of a higher one, saves the cursor it loaded
C4_Witness ==
  /\ pc = "save"
  /\ all_raw_txs # <<>>
  /\ \E i \in 1..Len(all_raw_txs) :
       /\ all_raw_txs[i].block_height > 0
       /\ all_raw_txs[i].block_height < data.last_block_height
  /\ \A i \in 1..Len(all_raw_txs) :
       all_raw_txs[i].block_height <= data.last_block_height
  /\ highest_block = data.last_block_height

\* C5. Retry of a failed address fetch: when a run saves, every ledgerable
\* transaction that an earlier failed fetch of an address left out is in the
\* saved ledger if the fetch of that address went through in this run.
C5_RetryIngests ==
  [][ (pc = "save" /\ pc' = "report") =>
        \A m \in missed :
          m[1] \notin fetch_failed => m[2] \in TxIds(data'.transactions) ]_vars

\* the record of the chain with a txid
ChainTx(txid) == CHOOSE tx \in Range(ChainTxs) : tx.hash = txid

\* every input is of one watched address, every output of another one
InternalTransfer(tx) ==
  \E a, b \in Range(Addresses) :
    /\ a # b
    /\ \A i \in 1..Len(tx.inputs)  : Range(tx.inputs[i].addresses) = {a}
    /\ \A i \in 1..Len(tx.outputs) : Range(tx.outputs[i].addresses) = {b}

RECURSIVE SumField(_, _)
SumField(items, field) ==
  IF items = <<>> THEN 0
  ELSE (IF field = "value" THEN Head(items).value
        ELSE Head(items).output_value) + SumField(Tail(items), field)

Fee(tx) == SumField(tx.inputs, "output_value") - SumField(tx.outputs, "value")

\* the entries of the ledger, persisted and in memory
LedgerEntries == Range(data.transactions) \cup Range(existing_txs)

C8_NoRequery ==
  pc \in {"price", "save"} =>
    \A d \in queried :
      ~ \E e \in Range(data.transactions) : e.date = d /\ e.price_usd # None

\* C9. A run always completes: it ends without an uncaught exception, and
\* when it reports it has saved once, the merged ledger it holds in memory.
C9_RunCompletes ==
  /\ pc # "crashed"
  /\ pc = "report" =>
       /\ saves = 1
       /\ data.transactions = SortedByTimestamp(existing_txs)
       /\ data.seen_txids = seen_txids
       /\ dates_todo = <<>>

\* the part of C9 the code keeps: a run that reports has saved exactly
\* once, and what it saved is the merged, backfilled ledger
C9_SavedOnce ==
  /\ saves <= 1
  /\ saves = 1 <=> pc = "report"
  /\ pc = "report" =>
       /\ data.transactions = SortedByTimestamp(existing_txs)
       /\ data.seen_txids = seen_txids
       /\ TxIds(ParseAllTransactions(all_raw_txs, Addresses))
             \subseteq TxIds(data.transactions)
       /\ dates_todo = <<>>

----------------------------------------------------------------------------
(* calculate_summary on its own: SpecCalc builds a ledger entry by entry   *)
(* from the values below and applies calculate_summary to it.  A ledger    *)
(* the program can hold has positive amounts and prices that are None or   *)
(* positive.  The amounts are in whole LTC here.                           *)

CalcAmounts == {1, 2}

CalcPrices == (Prices \ {0}) \cup {None}

CalcPcts == {TargetProfitPct, 10}

CalcEntry(n, type, amount, price) ==
  [txid |-> "c",
   date |-> 1,
   timestamp |-> <<1, n>>,
   addresses |-> {"A"},
   type |-> type,
   amount_ltc |-> amount,
   net_ltc |-> IF type = "receive" THEN amount ELSE 0 - amount,
   price_usd |-> price]

InitCalc ==
  /\ data = EmptyData
  /\ pc = "calc"
  /\ tip = 0
  /\ addr_i = 1
  /\ all_raw_txs = <<>>
  /\ highest_block = 0
  /\ api_balance_total = 0
  /\ existing_txs = <<>>
  /\ seen_txids = {}
  /\ is_first_run = TRUE
  /\ dates_todo = <<>>
  /\ price_cache = <<>>
  /\ queried = {}
  /\ oracle_log = <<>>
  /\ fetch_failed = {}
  /\ missed = {}
  /\ saves = 0
  /\ config = [exists |-> TRUE, addresses |-> Addresses]
  /\ addresses = <<>>
  /\ net_requests = FALSE

\* one more entry in the ledger
CalcAppend ==
  /\ pc \in {"calc", "summed"}
  /\ Len(existing_txs) < MaxEntries
  /\ \E type \in {"receive", "spend"}, amount \in CalcAmounts,
        price \in CalcPrices :
       existing_txs' = Append(existing_txs,
                              CalcEntry(Len(existing_txs) + 1, type, amount,
                                        price))
  /\ pc' = "calc"
  /\ UNCHANGED << data, tip, addr_i, all_raw_txs, highest_block,
                  api_balance_total, seen_txids, is_first_run, dates_todo,
                  price_cache, queried, oracle_log, fetch_failed, missed, saves,
                  cfgvars >>

\* summary = calculate_summary(existing_txs, current_price, target_profit)
CalcSummarize ==
  /\ pc = "calc"
  /\ \E current_price \in CurrentPrices \cup {None}, pct \in CalcPcts :
       data' = [data EXCEPT !.summary =
                  CalculateSummary(existing_txs, current_price, pct)]
  /\ pc' = "summed"
  /\ UNCHANGED << tip, addr_i, all_raw_txs, highest_block, api_balance_total,
                  existing_txs, seen_txids, is_first_run, dates_todo,
                  price_cache, queried, oracle_log, fetch_failed, missed, saves,
                  cfgvars >>

NextCalc ==
  \/ CalcAppend
  \/ CalcSummarize

SpecCalc == InitCalc /\ [][NextCalc]_vars

\* the indices of the entries of a type that have a price
PricedIndices(txs, type) ==
  { i \in 1..Len(txs) : txs[i].type = type /\ txs[i].price_usd # None }

RECURSIVE AmountOver(_, _)
AmountOver(txs, I) ==
  IF I = {} THEN 0
  ELSE LET i == CHOOSE x \in I : TRUE
       IN  txs[i].amount_ltc + AmountOver(txs, I \ {i})

RECURSIVE CostOver(_, _)
CostOver(txs, I) ==
  IF I = {} THEN 0
  ELSE LET i == CHOOSE x \in I : TRUE
       IN  txs[i].amount_ltc * txs[i].price_usd + CostOver(txs, I \ {i})

\* C10. Cost-basis formulas, over the entries that have a price:
\* balance = total_received - total_spent; avg_cost_basis = total_cost /
\* total_received when total_received > 0, else 0; remaining_cost =
\* avg_cost_basis * balance when balance > 0, else 0; target_sell_price =
\* avg_cost_basis * (1 + target_profit_pct / 100); and the summary of a
\* ledger is the summary of its priced entries alone.
C10_CostBasis ==
  pc = "summed" =>
    LET s == data.summary
        received == AmountOver(existing_txs,
                               PricedIndices(existing_txs, "receive"))
        spent == AmountOver(existing_txs,
                            PricedIndices(existing_txs, "spend"))
        cost == CostOver(existing_txs,
                         PricedIndices(existing_txs, "receive"))
        avg == s.avg_cost_basis_usd
        rem == s.remaining_cost_usd
        tgt == s.target_sell_price_usd
    IN  /\ s.total_received_ltc = received
        /\ s.total_spent_ltc = spent
        /\ s.total_cost_usd = cost
        /\ s.balance_ltc = received - spent
        /\ IF received > 0 THEN avg[1] * received = cost * avg[2]
           ELSE avg[1] = 0
        /\ IF s.balance_ltc > 0
           THEN rem[1] * avg[2] = avg[1] * s.balance_ltc * rem[2]
           ELSE rem[1] = 0
        /\ tgt[1] * avg[2] * 100
             = avg[1] * (100 + s.target_profit_pct) * tgt[2]
        /\ CalculateSummary(
             SelectSeq(existing_txs, LAMBDA t : t.price_usd # None),
             s.current_price_usd, s.target_profit_pct) = s

\* the summary of a ledger with a priced receive, a priced spend, an entry
\* without a price and a positive balance
C10_Witness ==
  /\ pc = "summed"
  /\ data.summary.balance_ltc > 0
  /\ data.summary.total_spends > 0
  /\ data.summary.total_receives > 0
  /\ \E i \in 1..Len(existing_txs) : existing_txs[i].price_usd = None

\* C11. A spend never alters the average cost: the summary of a ledger whose
\* last entry is a priced spend of amount s has the avg_cost_basis and the
\* target_sell_price of the summary of the ledger without that entry, and a
\* balance lower by exactly s.
C11_SpendKeepsAvg ==
  (pc = "summed" /\ existing_txs # <<>>) =>
    LET n == Len(existing_txs)
        last == existing_txs[n]
        s == data.summary
        before == CalculateSummary(SubSeq(existing_txs, 1, n - 1),
                                   s.current_price_usd, s.target_profit_pct)
    IN  (last.type = "spend" /\ last.price_usd # None) =>
          /\ s.avg_cost_basis_usd = before.avg_cost_basis_usd
          /\ s.target_sell_price_usd = before.target_sell_price_usd
          /\ s.balance_ltc = before.balance_ltc - last.amount_ltc

\* the summary of a ledger of priced receives, of a positive average cost,
\* to which a spend of another unit price was added
C11_Witness ==
  /\ pc = "summed"
  /\ Len(existing_txs) >= 2
  /\ LET last == existing_txs[Len(existing_txs)]
     IN  /\ last.type = "spend"
         /\ last.price_usd # None
         /\ \E i \in 1..(Len(existing_txs) - 1) :
              /\ existing_txs[i].type = "receive"
              /\ existing_txs[i].price_usd # None
              /\ existing_txs[i].price_usd # last.price_usd
  /\ data.summary.avg_cost_basis_usd[1] > 0

----------------------------------------------------------------------------
(* load_config and interactive_setup: SpecConfig starts main() on a        *)
(* config.json that is absent or holds any list of up to MaxConfigLen      *)
(* address strings, and follows it to its first request to the chain       *)
(* client.  The target profit and the currency of the setup are left out.  *)

\* The strings a config.json can hold or a user can type, by what the
\* pattern of interactive_setup looks at: the prefix, the number of
\* characters after it and whether they are all letters and digits.
AddressShape ==
  [A            |-> [prefix |-> "L", body |-> 33, alnum |-> TRUE],
   B            |-> [prefix |-> "ltc1", body |-> 39, alnum |-> TRUE],
   bad          |-> [prefix |-> "1", body |-> 33, alnum |-> TRUE],
   Lshort       |-> [prefix |-> "L", body |-> 9, alnum |-> TRUE],
   YOUR_ADDRESS |-> [prefix |-> "YOUR_", body |-> 7, alnum |-> TRUE]]

AddressStrings == DOMAIN AddressShape

\* re.match(r'^(ltc1|[LM3])[a-zA-Z0-9]{25,62}$', addr)
ValidFormat(addr) ==
  LET shape == AddressShape[addr]
  IN  /\ shape.prefix \in {"ltc1", "L", "M", "3"}
      /\ shape.alnum
      /\ shape.body >= 25 /\ shape.body <= 62

\* a.startswith("YOUR_")
IsPlaceholder(addr) == AddressShape[addr].prefix = "YOUR_"

\* config.json does not exist
NoConfig == [exists |-> FALSE, addresses |-> <<>>]

ConfigFiles ==
  {NoConfig} \cup
  { [exists |-> TRUE, addresses |-> s] :
      s \in UNION { [1..n -> AddressStrings] : n \in 0..MaxConfigLen } }

\* 'not cfg.get("addresses") or any(a.startswith("YOUR_") ...)'
HasPlaceholders(cfg) ==
  \/ cfg.addresses = <<>>
  \/ \E i \in 1..Len(cfg.addresses) : IsPlaceholder(cfg.addresses[i])

InitConfig ==
  /\ data = EmptyData
  /\ pc = "start"
  /\ tip = 0
  /\ addr_i = 1
  /\ all_raw_txs = <<>>
  /\ highest_block = 0
  /\ api_balance_total = 0
  /\ existing_txs = <<>>
  /\ seen_txids = {}
  /\ is_first_run = TRUE
  /\ dates_todo = <<>>
  /\ price_cache = <<>>
  /\ queried = {}
  /\ oracle_log = <<>>
  /\ fetch_failed = {}
  /\ missed = {}
  /\ saves = 0
  /\ config \in ConfigFiles
  /\ addresses = <<>>
  /\ net_requests = FALSE

\* what the run and the files are not touched by while the configuration
\* is loaded
runvars == << data, tip, addr_i, all_raw_txs, highest_block,
              api_balance_total, existing_txs, seen_txids, is_first_run,
              dates_todo, price_cache, queried, oracle_log, fetch_failed,
              missed, saves >>

\* load_config() up to its return, its call of interactive_setup or its
\* sys.exit(0); run_setup is the answer to "Run interactive setup? (Y/n)"
LoadConfig ==
  /\ pc = "start"
  /\ \E run_setup \in BOOLEAN :
       IF ~config.exists
       THEN pc' = "setup" /\ addresses' = <<>>
       ELSE IF HasPlaceholders(config)
            THEN /\ pc' = (IF run_setup THEN "setup" ELSE "exited")
                 /\ addresses' = <<>>
            ELSE /\ pc' = "loaded"
                 /\ addresses' = config.addresses
  /\ UNCHANGED << config, net_requests >>
  /\ UNCHANGED runvars

\* One iteration of the "while True" of interactive_setup on the line the
\* user typed ("" is Enter on an empty line); when the loop breaks, the
\* rest of interactive_setup: config.json is written and returned.
SetupInput ==
  /\ pc = "setup"
  /\ \E typed \in AddressStrings \cup {""} :
       IF typed = ""
       THEN IF Len(addresses) = 0
            THEN UNCHANGED << pc, addresses, config >>
            ELSE /\ config' = [exists |-> TRUE, addresses |-> addresses]
                 /\ pc' = "loaded"
                 /\ UNCHANGED addresses
       ELSE IF ~ValidFormat(typed) \/ typed \in Range(addresses)
            THEN UNCHANGED << pc, addresses, config >>
            ELSE /\ Len(addresses) < MaxConfigLen
                 /\ addresses' = Append(addresses, typed)
                 /\ UNCHANGED << pc, config >>
  /\ UNCHANGED net_requests
  /\ UNCHANGED runvars

\* main() from load_data to the first request of the address loop, the
\* fetch_address_balance of addresses[0]
FirstRequest ==
  /\ pc = "loaded"
  /\ addresses # <<>>
  /\ net_requests' = TRUE
  /\ pc' = "fetch"
  /\ UNCHANGED << config, addresses >>
  /\ UNCHANGED runvars

NextConfig ==
  \/ LoadConfig
  \/ SetupInput
  \/ FirstRequest

SpecConfig == InitConfig /\ [][NextConfig]_vars

\* C12. Configuration errors are fatal before any network activity: a run
\* that has sent a request to a network service runs on a configuration
\* that has watched addresses, all of a valid format.
C12_ConfigErrorsFatal ==
  net_requests =>
    /\ addresses # <<>>
    /\ \A i \in 1..Len(addresses) : ValidFormat(addresses[i])

\* the part of C12 the code keeps: no request is sent on a configuration
\* without addresses
C12_NoAddressesNoRequest ==
  net_requests => addresses # <<>>

\* C13. Unconfirmed transactions are never ledgered: every entry of the
\* ledger carries the confirmation time of its record and is of a
\* transaction that is in a block, and after the merge of a run no record
\* the run fetched without a confirmation time has an entry.
C13_UnconfirmedNotLedgered ==
  /\ \A e \in LedgerEntries :
       /\ e.timestamp # <<>>
       /\ e.timestamp = ChainTx(e.txid).confirmed
       /\ ChainTx(e.txid).block_height <= tip
  /\ pc \in {"price", "save", "report"} =>
       \A i \in 1..Len(all_raw_txs) :
         all_raw_txs[i].confirmed = <<>> =>
           all_raw_txs[i].hash \notin TxIds(existing_txs)

\* a run fetched a record without a confirmation time whose net effect is
\* above the dust threshold, merged, and holds no entry of it
C13_Witness ==
  /\ pc = "save"
  /\ \E i \in 1..Len(all_raw_txs) :
       /\ all_raw_txs[i].confirmed = <<>>
       /\ ~IsDust(NetLitoshis(all_raw_txs[i], Range(Addresses)))
       /\ all_raw_txs[i].hash \notin TxIds(existing_txs)
  /\ existing_txs # <<>>

\* the sum of a field over the items whose address list has a watched
\* address, each item counted once
RECURSIVE SumWatchedOnce(_, _, _)
SumWatchedOnce(items, field, tracked_set) ==
  IF items = <<>> THEN 0
  ELSE (IF Range(Head(items).addresses) \cap tracked_set # {}
        THEN (IF field = "value" THEN Head(items).value
              ELSE Head(items).output_value)
        ELSE 0) + SumWatchedOnce(Tail(items), field, tracked_set)

\* C14. Net-effect aggregation: the net_amount of every entry is the sum of
\* the values of the outputs of its transaction that list a watched address
\* minus the sum of the prior-output values of its inputs that list one,
\* each output and each input counted exactly once.
C14_CountedOnce ==
  \A e \in LedgerEntries :
    LET tx == ChainTx(e.txid)
    IN  e.net_ltc = SumWatchedOnce(tx.outputs, "value", Range(Addresses))
                    - SumWatchedOnce(tx.inputs, "output_value",
                                     Range(Addresses))

\* the part of C14 the code keeps: the claim holds of every entry whose
\* transaction has no output and no input that lists two watched addresses
C14_CountedOnceSingle ==
  \A e \in LedgerEntries :
    LET tx == ChainTx(e.txid)
        single(items) ==
          \A i \in 1..Len(items) :
            TrackedCount(items[i].addresses, Range(Addresses)) <= 1
    IN  (single(tx.outputs) /\ single(tx.inputs)) =>
          e.net_ltc = SumWatchedOnce(tx.outputs, "value", Range(Addresses))
                      - SumWatchedOnce(tx.inputs, "output_value",
                                       Range(Addresses))

\* C15. Fetch lower bound: the address fetches of a run are issued with the
\* persisted last_block_height as lower bound, whatever the ledger holds:
\* none on the first run, when nothing is persisted, and the value the
\* prior run saved on every later run (a saved height of 0 sends the same
\* requests as no lower bound, and is taken for the same).
C15_LowerBound ==
  pc = "fetch" => AfterParam(AfterBlock) = AfterParam(data.last_block_height)

\* the part of C15 the code keeps: the lower bound is the persisted
\* last_block_height whenever the persisted ledger has an entry, and none
\* on the first run
C15_LowerBoundOfLedger ==
  pc = "fetch" =>
    /\ data.transactions # <<>> => AfterBlock = data.last_block_height
    /\ data.transactions = <<>> => AfterBlock = None

\* C16. seen_txids covers the ledger: the persisted seen_txids holds the
\* txid of every entry of the persisted ledger, and from the merge of a run
\* on main's seen_txids holds the txid of every entry main holds.
C16_SeenCoversLedger ==
  /\ TxIds(data.transactions) \subseteq data.seen_txids
  /\ pc \in {"price", "save", "report"} =>
       TxIds(existing_txs) \subseteq seen_txids

\* a run has saved a ledger that holds an entry of a record it fetched and
\* an entry of an earlier run whose record it did not fetch
C16_Witness ==
  /\ pc = "report"
  /\ \E i, j \in 1..Len(data.transactions) :
       /\ data.transactions[i].txid
            \in { all_raw_txs[k].hash : k \in 1..Len(all_raw_txs) }
       /\ data.transactions[j].txid
            \notin { all_raw_txs[k].hash : k \in 1..Len(all_raw_txs) }

\* C17. Dust ids are marked seen: when a run has saved, the persisted
\* seen_txids holds the txid of every confirmed record the run fetched,
\* the records dropped as dust included.
C17_DustSeen ==
  pc = "report" =>
    \A i \in 1..Len(all_raw_txs) :
      all_raw_txs[i].confirmed # <<>> =>
        all_raw_txs[i].hash \in data.seen_txids

\* what the code keeps of C17: when a run has saved, the persisted
\* seen_txids holds the txid of a confirmed record the run fetched exactly
\* when the record is not dust
C17_SeenIffNotDust ==
  pc = "report" =>
    \A i \in 1..Len(all_raw_txs) :
      all_raw_txs[i].confirmed # <<>> =>
        ( all_raw_txs[i].hash \in data.seen_txids
            <=> ~IsDust(NetLitoshis(all_raw_txs[i], Range(Addresses))) )

\* was the price of an entry main holds null when the run merged: the entry
\* is new, or the ledger the run loaded holds it without a price
NullAtMerge(e) ==
  \A o \in Range(data.transactions) : o.txid = e.txid => o.price_usd = None

\* what the historical oracle answered for a date it was asked for in this
\* run: an answer is kept in _price_cache, a failed request leaves nothing
OracleAnswer(d) ==
  IF d \in DOMAIN price_cache THEN price_cache[d] ELSE None

\* The backfill of a run, while it runs and when it is done: the oracle was
\* asked no date twice; the dates asked and the dates still to ask are the
\* dates of the entries whose price was null at the merge (so every entry
\* an earlier run left without a price has its date asked again); and every
\* such entry of a date asked holds price_of(answer), of a date still to
\* ask holds no price.
BackfillState(price_of(_)) ==
  pc \in {"price", "save"} =>
    LET nulls == { e \in Range(existing_txs) : NullAtMerge(e) }
        asked == oracle_log \o dates_todo
    IN  /\ \A i, j \in 1..Len(asked) : asked[i] = asked[j] => i = j
        /\ Range(asked) = { e.date : e \in nulls }
        /\ Range(oracle_log) = queried
        /\ \A o \in Range(data.transactions) :
             o.price_usd = None => o.date \in Range(asked)
        /\ \A e \in nulls :
             /\ e.date \in Range(oracle_log) =>
                  e.price_usd = price_of(OracleAnswer(e.date))
             /\ e.date \in Range(dates_todo) => e.price_usd = None

\* C18 as claimed. Backfill step: in a run the historical oracle is asked
\* exactly once for each date of an entry whose price is null, and for no
\* other date; when it answers, every such entry of the date holds the
\* price answered; when the request fails, every such entry stays null and
\* the next run asks for the date again.
C18_Backfill ==
  BackfillState(LAMBDA answer : answer)

\* C18 as amended. The same, with an answer of 0 taken for a failed request:
\* the entries of the date stay null and the next run asks again.
C18_BackfillNonZero ==
  BackfillState(LAMBDA answer : IF answer = 0 THEN None ELSE answer)

\* a backfill is done in which the request for one date failed and the one
\* for another date was answered with a price, which went to an entry an
\* earlier run had left null and to a new entry of the same date
C18_Witness ==
  /\ pc = "save"
  /\ \E d1, d2 \in Range(oracle_log) :
       /\ OracleAnswer(d1) = None
       /\ Truthy(OracleAnswer(d2))
       /\ \E e1, e2 \in Range(existing_txs) :
            /\ e1.date = d2 /\ e2.date = d2
            /\ e1.txid \in TxIds(data.transactions)
            /\ e2.txid \notin TxIds(data.transactions)
            /\ NullAtMerge(e1)
            /\ e1.price_usd = OracleAnswer(d2)
            /\ e2.price_usd = OracleAnswer(d2)

\* C19. Valuation nullness: the current_value of a summary is null exactly
\* when the current price is unavailable; with a current price, for every
\* balance, zero included, current_value = balance * current_price and
\* unrealized_pl = current_value - remaining_cost.
C19_ValuationNullness ==
  pc = "summed" =>
    LET s == data.summary
    IN  /\ s.current_value_usd = NoneR <=> s.current_price_usd = None
        /\ s.current_price_usd # None =>
             /\ s.current_value_usd
                  = RInt(s.balance_ltc * s.current_price_usd)
             /\ s.unrealized_pl_usd
                  = RSub(RInt(s.balance_ltc * s.current_price_usd),
                         s.remaining_cost_usd)

\* what the code keeps of C19: the same for every balance other than zero;
\* at a balance of zero current_value and unrealized_pl are null
C19_NullnessNonZero ==
  pc = "summed" =>
    LET s == data.summary
        valued == s.current_price_usd # None /\ s.balance_ltc # 0
    IN  /\ s.current_value_usd = NoneR <=> ~valued
        /\ s.unrealized_pl_usd = NoneR <=> ~valued
        /\ valued =>
             /\ s.current_value_usd
                  = RInt(s.balance_ltc * s.current_price_usd)
             /\ s.unrealized_pl_usd
                  = RSub(s.current_value_usd, s.remaining_cost_usd)

\* C20. Failed fetch contributes nothing: an iteration of the address loop
\* whose fetch raised, at any request of its pagination, adds to
\* all_raw_txs no record that the parse of the run turns into an entry, and
\* does not move highest_block.
C20_FailedFetchEmpty ==
  [][ (pc = "fetch" /\ fetch_failed' # fetch_failed) =>
        /\ ParseAllTransactions(all_raw_txs', Addresses)
             = ParseAllTransactions(all_raw_txs, Addresses)
        /\ highest_block' = highest_block ]_vars

\* what the code does instead: a fetch that raised adds the records of the
\* pages it had gathered, a prefix of what the chain client holds for the
\* address
C20_FailedFetchPrefix ==
  [][ (pc = "fetch" /\ fetch_failed' # fetch_failed) =>
        \E inclusive \in BOOLEAN :
          LET held == AddressHistory(Addresses[addr_i], tip,
                                     AfterParam(AfterBlock), inclusive)
          IN  \E n \in 0..Len(held) :
                all_raw_txs' = all_raw_txs \o Take(held, n) ]_vars

\* an entry with its price left out
Unpriced(e) == [e EXCEPT !.price_usd = None]

\* every entry of txs is in txs2, once, with the fields it had; its price is
\* the one it had, or it had none
KeptIn(txs, txs2) ==
  \A i \in 1..Len(txs) :
    /\ Cardinality({ j \in 1..Len(txs2) : txs2[j].txid = txs[i].txid }) = 1
    /\ \E j \in 1..Len(txs2) :
         /\ Unpriced(txs2[j]) = Unpriced(txs[i])
         /\ txs[i].price_usd # None => txs2[j].price_usd = txs[i].price_usd

\* a record as the chain client could serve it another time: the values of
\* its inputs and outputs doubled
AlteredValues(tx) ==
  [tx EXCEPT
     !.inputs = [i \in 1..Len(tx.inputs) |->
                   [tx.inputs[i] EXCEPT !.output_value = 2 * @]],
     !.outputs = [i \in 1..Len(tx.outputs) |->
                    [tx.outputs[i] EXCEPT !.value = 2 * @]]]

\* the record in a later block, of another day
AlteredBlock(tx) ==
  [tx EXCEPT !.confirmed = <<MaxHeight, MaxHeight>>,
             !.block_height = MaxHeight + 1]

\* the record sent to and from the other addresses
AlteredAddresses(tx) ==
  LET other(a) == IF a = "A" THEN "X" ELSE IF a = "X" THEN "A" ELSE a
      swap(items) == [i \in 1..Len(items) |->
                        [items[i] EXCEPT !.addresses =
                           [k \in 1..Len(@) |-> other(@[k])]]]
  IN  [tx EXCEPT !.inputs = swap(@), !.outputs = swap(@)]

\* lines 509-515 on the raw records of the run with their contents changed
MergedAltered(Alter(_)) ==
  Merged(existing_txs, seen_txids,
         [i \in 1..Len(all_raw_txs) |-> Alter(all_raw_txs[i])])

\* C21. Append-only ledger: no step removes an entry from the ledger, in
\* memory or persisted, or changes a field of an entry other than its
\* price, which only goes from null to a price; and the merge of a run
\* leaves the entries of the ledger as they are also when the records
\* fetched come with other values, another block or other addresses.
C21_AppendOnly ==
  [][ /\ KeptIn(data.transactions, data.transactions')
      /\ pc' \in {"fetch", "parse", "price", "save", "report"} =>
           KeptIn(data.transactions, existing_txs')
      /\ pc \in {"fetch", "parse", "price", "save"} =>
           KeptIn(existing_txs, existing_txs')
      /\ pc = "parse" =>
           /\ KeptIn(existing_txs, MergedAltered(AlteredValues).txs)
           /\ KeptIn(existing_txs, MergedAltered(AlteredBlock).txs)
           /\ KeptIn(existing_txs, MergedAltered(AlteredAddresses).txs)
    ]_vars

\* A run fetched again the record of an entry that has a price, merged, and
\* priced an entry an earlier run had left without a price; the ledger has
\* a new entry too.  With other values or another block the record
\* fetched again would give another entry.
C21_Witness ==
  /\ pc = "save"
  /\ \E i \in 1..Len(all_raw_txs), o \in Range(data.transactions) :
       /\ all_raw_txs[i].hash = o.txid
       /\ o.price_usd # None
       /\ ParseOne(AlteredValues(all_raw_txs[i]), Range(Addresses))
            # <<Unpriced(o)>>
       /\ ParseOne(AlteredBlock(all_raw_txs[i]), Range(Addresses))
            # <<Unpriced(o)>>
  /\ \E o \in Range(data.transactions), e \in Range(existing_txs) :
       o.txid = e.txid /\ o.price_usd = None /\ e.price_usd # None
  /\ Len(existing_txs) > Len(data.transactions)

\* C22. Same date, same price: any two entries of the ledger that share a
\* date and both have a price have the same price.
C22_SameDateSamePrice ==
  \A e1, e2 \in Range(data.transactions) :
    (e1.date = e2.date /\ e1.price_usd # None /\ e2.price_usd # None)
      => e1.price_usd = e2.price_usd

\* what the code keeps of C22: the entries of a date that one run priced
\* have the same price, the one the oracle answered in that run
C22_SamePriceInRun ==
  pc \in {"price", "save"} =>
    \A e1, e2 \in Range(existing_txs) :
      ( /\ e1.date = e2.date
        /\ NullAtMerge(e1) /\ NullAtMerge(e2)
        /\ e1.price_usd # None /\ e2.price_usd # None )
        => /\ e1.price_usd = e2.price_usd
           /\ e1.price_usd = OracleAnswer(e1.date)

====
